---- MODULE Spec2Model ----
(***************************************************************************)
(* Telemetry state management of Car-Tools' React front end: the           *)
(* WebSocket sessions of Dashboard, DiagnosticsPage and                    *)
(* Fuel_Air_Metrics_Dashboard and the rolling windows they feed.           *)
(*                                                                         *)
(* One view is mounted at a time (App.jsx routes, the tabs of the tabbed   *)
(* Dashboard).  The mounted instance owns wsRef, diagnosticsRunning,       *)
(* messages and history.  WebSockets are the browser's objects: they       *)
(* outlive the instance that created them unless somebody closes them.     *)
(* JavaScript runs every handler to completion, so a handler is one step.  *)
(***************************************************************************)
EXTENDS Integers, Sequences, FiniteSets, TLC

VARIABLES
    view,                \* the mounted component, "none" when no view is mounted
    inst,                \* number of component instances mounted so far
    wsRef,               \* wsRef.current of the mounted instance: 0 is null, else a socket
    diagnosticsRunning,  \* the status flag of the mounted instance
    messages,            \* raw-feed window, most recent first
    history,             \* detail window, oldest first
    sockets,             \* every WebSocket created so far, in creation order
    sent,                \* number of message events delivered so far
    arrived,             \* payloads the mounted instance has appended, in arrival order
    last,                \* the operation that ran last and what it found
    out,                 \* what the last render of the mounted view computed
    page,                \* the mounted polling page, "none" when there is none
    pinst,               \* number of polling-page instances mounted so far
    data,                \* SnapshotDashboard: data
    loading,             \* SnapshotDashboard: loading
    timers,              \* the instances whose setInterval timer is active
    isRunning,           \* DiagnosticsInfo: isRunning
    error,               \* DiagnosticsInfo: error
    result,              \* DiagnosticsInfo: result
    lastRunAt,           \* DiagnosticsInfo: lastRunAt, 0 when null
    fetches,             \* every fetch issued so far, in issue order
    values,              \* Sparkline: the values prop
    min,                 \* Sparkline: the min prop
    max,                 \* Sparkline: the max prop
    points,              \* Sparkline: what useMemo computed for the props
    dtcs,                \* SnapshotDashboard: data?.diagnostics?.dtcs
    shown                \* SnapshotDashboard: the trouble codes as listed

vars == <<view, inst, wsRef, diagnosticsRunning, messages, history, sockets,
          sent, arrived, last, out,
          page, pinst, data, loading, timers, isRunning, error, result, lastRunAt,
          fetches, values, min, max, points, dtcs, shown>>

\* Everything but the session: left alone by the session's operations.
others == <<out, page, pinst, data, loading, timers, isRunning, error, result,
            lastRunAt, fetches, values, min, max, points, dtcs, shown>>

\* The state of the WebSocket views.
session == <<view, inst, wsRef, diagnosticsRunning, messages, history, sockets,
             sent, arrived, last>>

\* The state of the polling pages.
poller == <<page, pinst, data, loading, timers, isRunning, error, result, lastRunAt,
            fetches>>

\* The props and the memo of a Sparkline.
sparkline == <<values, min, max, points>>

\* The trouble codes of a snapshot and their list.
display == <<dtcs, shown>>

(***************************************************************************)
(* Bounds of the model.                                                    *)
(***************************************************************************)
MaxSockets == 2
MaxInst == 2
MaxMsgs == 2
MaxLong == 122

(***************************************************************************)
(* Program constants.                                                      *)
(***************************************************************************)
FeedCap == 20
HistoryCap == 120

Min(a, b) == IF a < b THEN a ELSE b
Max(a, b) == IF a > b THEN a ELSE b

Views == {"Dashboard", "DiagnosticsPage", "FuelAir"}

\* The views with a Run/Stop button.
ButtonViews == {"Dashboard", "DiagnosticsPage"}

(***************************************************************************)
(* Array.prototype.slice as the handlers use it.                           *)
(***************************************************************************)
\* arr.slice(0, n): the first n elements, all of them when there are fewer.
SliceHead(arr, n) == SubSeq(arr, 1, Min(Len(arr), n))

\* arr.slice(-n): the last n elements, all of them when there are fewer.
SliceTail(arr, n) == SubSeq(arr, Max(1, Len(arr) - n + 1), Len(arr))

(***************************************************************************)
(* The stream's messages.  e.data is a string; what matters of it is       *)
(* whether it is JSON, whether that JSON is null or an object, the type    *)
(* tag of the object and the stamp that tells one message from another.    *)
(***************************************************************************)
Tags == {"fuel_air", "bogus", "undefined"}

\* The strings the n-th message event can carry.
RawMessages(n) ==
    { [json |-> FALSE, null |-> FALSE, type |-> "undefined", ts |-> n],
      [json |-> TRUE, null |-> TRUE, type |-> "undefined", ts |-> n] }
    \cup { [json |-> TRUE, null |-> FALSE, type |-> t, ts |-> n] : t \in Tags }

\* The messages of a well-behaved bridge: tagged fuel_air payloads.
RawFuelAir(n) == { [json |-> TRUE, null |-> FALSE, type |-> "fuel_air", ts |-> n] }

\* JSON.parse(e.data): the value, or a SyntaxError.
JSONParse(raw) ==
    IF ~raw.json THEN [threw |-> TRUE, kind |-> "none", type |-> "undefined", ts |-> 0]
    ELSE IF raw.null THEN [threw |-> FALSE, kind |-> "null", type |-> "undefined", ts |-> 0]
    ELSE [threw |-> FALSE, kind |-> "object", type |-> raw.type, ts |-> raw.ts]

\* The parsed value as the windows store it.
Value(p) == [kind |-> p.kind, type |-> p.type, ts |-> p.ts]

\* msg.data of a tagged message: the group's fields, which carry no tag.
MsgData(p) == [kind |-> "object", type |-> "undefined", ts |-> p.ts]


(***************************************************************************)
(* The message handlers' updates.                                          *)
(***************************************************************************)
\* A raw feed that appends at the end and keeps the first 20.
PushFeedAtEnd(prev, d) == SliceHead(prev \o <<d>>, FeedCap)

\* A history that evicts only beyond 121 entries.
PushHistoryOffByOne(prev, d) == SliceTail(prev \o <<d>>, HistoryCap + 1)

\* setMessages((prev) => [data, ...prev].slice(0, 20))
PushFeed(prev, d) == SliceHead(<<d>> \o prev, FeedCap)

\* setHistory((prev) => [...prev, data].slice(-120))
PushHistory(prev, d) == SliceTail(prev \o <<d>>, HistoryCap)

\* Whether view v's handler gets as far as its setters with parse result p:
\* JSON.parse did not throw, and Fuel_Air_Metrics_Dashboard alone returns
\* early on msg?.type !== "fuel_air".
Accepts(v, p) == ~p.threw /\ (v = "FuelAir" => p.type = "fuel_air")

\* What view v's handler appends: Fuel_Air_Metrics_Dashboard msg.data, the
\* pages the parsed value itself.
Payload(v, p) == IF v = "FuelAir" THEN MsgData(p) ELSE Value(p)

\* messages after view v's handler has run on p (Fuel_Air_Metrics_Dashboard
\* keeps no messages).
OnMessageFeed(v, prev, p) ==
    IF v \in ButtonViews /\ Accepts(v, p) THEN PushFeed(prev, Payload(v, p)) ELSE prev

\* A history that skips JSON null payloads, which the raw feed takes.
OnMessageHistorySkipsNull(v, prev, p) ==
    IF v \in {"Dashboard", "FuelAir"} /\ Accepts(v, p) /\ p.kind # "null"
    THEN PushHistory(prev, Payload(v, p)) ELSE prev

\* history after view v's handler has run on p (DiagnosticsPage keeps no
\* history).
OnMessageHistory(v, prev, p) ==
    IF v \in {"Dashboard", "FuelAir"} /\ Accepts(v, p)
    THEN PushHistory(prev, Payload(v, p)) ELSE prev

(***************************************************************************)
(* WebSockets.  readyState is CONNECTING, OPEN, CLOSING or CLOSED; FAILED  *)
(* is CLOSED inside the task that fires error and then close, between the  *)
(* two events.  owner is the instance that created the socket; stopped     *)
(* tells that stopDiagnostics() has closed it.                             *)
(***************************************************************************)
Sock == DOMAIN sockets

\* new WebSocket(url), created by instance i.
NewSocket(i) == [state |-> "CONNECTING", owner |-> i, stopped |-> FALSE]

\* ws.close(): starts the closing handshake of a socket that is not closing
\* or closed already.
CloseCall(sk) ==
    IF sk.state \in {"CONNECTING", "OPEN"}
    THEN [sk EXCEPT !.state = "CLOSING", !.stopped = TRUE]
    ELSE [sk EXCEPT !.stopped = TRUE]

\* The socket's close event has not been delivered yet.
IsLive(s) == sockets[s].state # "CLOSED"

\* The instance whose state socket s's handlers close over is still mounted.
Alive(s) == view # "none" /\ sockets[s].owner = inst

\* No task is between its error and its close event.
NoTask == \A s \in Sock : sockets[s].state # "FAILED"

\* No message: the raw field of an operation that is not a message event.
NoRaw == [json |-> FALSE, null |-> FALSE, type |-> "undefined", ts |-> 0]

\* The record of the operation that runs now.
Op(name, s, threw) ==
    [op |-> name, prev |-> last.op, sock |-> s, threw |-> threw, ref |-> wsRef,
     raw |-> NoRaw]

(***************************************************************************)
(* Mounting and unmounting a view.                                         *)
(***************************************************************************)
\* useState/useRef initial values; Fuel_Air_Metrics_Dashboard's mount effect
\* opens its socket at once.
Mount(v) ==
    /\ view = "none" /\ NoTask
    /\ inst < MaxInst
    /\ v = "FuelAir" => Len(sockets) < MaxSockets
    /\ view' = v
    /\ inst' = inst + 1
    /\ diagnosticsRunning' = FALSE
    /\ messages' = <<>>
    /\ history' = <<>>
    /\ arrived' = <<>>
    /\ IF v = "FuelAir"
       THEN /\ sockets' = Append(sockets, NewSocket(inst + 1))
            /\ wsRef' = Len(sockets) + 1
       ELSE /\ sockets' = sockets
            /\ wsRef' = 0
    /\ last' = Op("mount", 0, FALSE)
    /\ UNCHANGED others
    /\ UNCHANGED sent

\* What unmounting does to the sockets of the instance: no component has a
\* cleanup (no effect returns one), so nothing.
TeardownSockets(socks, i) == socks

\* The view is torn down: its state and its ref are dropped.
Unmount ==
    /\ view # "none" /\ NoTask
    /\ view' = "none"
    /\ sockets' = TeardownSockets(sockets, inst)
    /\ wsRef' = 0
    /\ diagnosticsRunning' = FALSE
    /\ messages' = <<>>
    /\ history' = <<>>
    /\ arrived' = <<>>
    /\ last' = Op("unmount", 0, FALSE)
    /\ UNCHANGED others
    /\ UNCHANGED <<inst, sent>>

(***************************************************************************)
(* startDiagnostics and stopDiagnostics.                                   *)
(***************************************************************************)
\* startDiagnostics without its guard.
StartNeverReturnsEarly(ref) == FALSE

\* if (wsRef.current) return;
StartReturnsEarly(ref) == ref # 0

\* A start that empties the window it is given.
StartClearsWindow(w) == <<>>

\* messages, and history, after a startDiagnostics() that opens a session:
\* it calls neither setMessages nor setHistory.
StartWindow(w) == w

StartDiagnostics ==
    /\ view \in ButtonViews /\ NoTask
    /\ IF StartReturnsEarly(wsRef)
       THEN UNCHANGED <<wsRef, diagnosticsRunning, sockets, messages, history>>
       ELSE /\ Len(sockets) < MaxSockets
            /\ sockets' = Append(sockets, NewSocket(inst))
            /\ wsRef' = Len(sockets) + 1
            /\ diagnosticsRunning' = TRUE
            /\ messages' = StartWindow(messages)
            /\ history' = StartWindow(history)
    /\ last' = Op("start", 0, FALSE)
    /\ UNCHANGED others
    /\ UNCHANGED <<view, inst, sent, arrived>>

StopDiagnostics ==
    /\ view \in ButtonViews /\ NoTask
    /\ IF wsRef # 0
       THEN /\ sockets' = [sockets EXCEPT ![wsRef] = CloseCall(@)]
            /\ wsRef' = 0
       ELSE UNCHANGED <<wsRef, sockets>>
    /\ last' = Op("stop", wsRef, FALSE)
    /\ UNCHANGED others
    /\ UNCHANGED <<view, inst, diagnosticsRunning, messages, history, sent, arrived>>

\* A button that starts whatever the status flag says.
RunAlwaysOffered(running) == TRUE

\* diagnosticsRunning ? (Stop Diagnostics) : (Run Diagnostics)
RunOffered(running) == ~running

\* The button the page renders calls startDiagnostics when the committed
\* diagnosticsRunning is false and stopDiagnostics when it is true.
ClickRunDiagnostics == RunOffered(diagnosticsRunning) /\ StartDiagnostics

ClickStopDiagnostics == diagnosticsRunning /\ StopDiagnostics

(***************************************************************************)
(* The transport's events and the handlers they run.                       *)
(***************************************************************************)
\* ws.onopen: logs.
WsOpen(s) ==
    /\ NoTask
    /\ sockets[s].state = "CONNECTING"
    /\ sockets' = [sockets EXCEPT ![s].state = "OPEN"]
    /\ last' = Op("open", s, FALSE)
    /\ UNCHANGED others
    /\ UNCHANGED <<view, inst, wsRef, diagnosticsRunning, messages, history, sent, arrived>>

\* ws.onmessage on e.data = raw.  A message event is fired at an OPEN socket
\* only.  The setters of an unmounted instance change nothing.
WsMessage(s, raw) ==
    /\ NoTask
    /\ sockets[s].state = "OPEN"
    /\ sent' = sent + 1
    /\ LET p == JSONParse(raw)
       IN  /\ IF Alive(s)
              THEN /\ messages' = OnMessageFeed(view, messages, p)
                   /\ history' = OnMessageHistory(view, history, p)
                   /\ arrived' = IF Accepts(view, p)
                                 THEN Append(arrived, Payload(view, p)) ELSE arrived
              ELSE UNCHANGED <<messages, history, arrived>>
           /\ last' = [Op("message", s, p.threw) EXCEPT !.raw = raw]
           /\ UNCHANGED others
    /\ UNCHANGED <<view, inst, wsRef, diagnosticsRunning, sockets>>

\* wsRef.current after ws.onerror: console.error only.
OnErrorRef(ref) == ref

\* diagnosticsRunning after ws.onerror.
OnErrorRunning(running) == running

\* The connection fails: the error event of the task that closes the socket.
WsError(s) ==
    /\ NoTask
    /\ sockets[s].state \in {"CONNECTING", "OPEN", "CLOSING"}
    /\ sockets' = [sockets EXCEPT ![s].state = "FAILED"]
    /\ IF Alive(s)
       THEN /\ wsRef' = OnErrorRef(wsRef)
            /\ diagnosticsRunning' = OnErrorRunning(diagnosticsRunning)
       ELSE UNCHANGED <<wsRef, diagnosticsRunning>>
    /\ last' = Op("error", s, FALSE)
    /\ UNCHANGED others
    /\ UNCHANGED <<view, inst, messages, history, sent, arrived>>

\* An onclose that leaves the handle in place.
OnCloseKeepsRef(ref, s) == ref

\* An onclose that leaves the status flag as it was.
OnCloseKeepsRunning(running) == running

\* wsRef.current after ws.onclose of socket s: wsRef.current = null, whatever
\* it held.
OnCloseRef(ref, s) == 0

\* diagnosticsRunning after ws.onclose: setDiagnosticsRunning(false);
\* Fuel_Air_Metrics_Dashboard has no such flag.
OnCloseRunning(running) == FALSE

\* The close event: of a clean close, of a closing handshake that ended, or
\* of the task that fired error.
WsClose(s) ==
    /\ sockets[s].state \in {"OPEN", "CLOSING", "FAILED"}
    /\ sockets[s].state # "FAILED" => NoTask
    /\ sockets' = [sockets EXCEPT ![s].state = "CLOSED"]
    /\ IF Alive(s)
       THEN /\ wsRef' = OnCloseRef(wsRef, s)
            /\ diagnosticsRunning' = OnCloseRunning(diagnosticsRunning)
       ELSE UNCHANGED <<wsRef, diagnosticsRunning>>
    /\ last' = Op("close", s, FALSE)
    /\ UNCHANGED others
    /\ UNCHANGED <<view, inst, messages, history, sent, arrived>>

(***************************************************************************)
(* The polling pages: SnapshotDashboard fetches a snapshot at mount, every *)
(* 2000 ms and on Refresh Now; DiagnosticsInfo posts a refresh on its      *)
(* button.  A fetch is issued in one step and completes in a later one.    *)
(***************************************************************************)
MaxPInst == 2
MaxFetches == 3

Pages == {"SnapshotDashboard", "DiagnosticsInfo"}

\* How a fetch ends: a parsed 2xx body, a rejected fetch, a non-2xx response
\* whose body is JSON, a non-2xx response whose body is not, and a 2xx
\* response whose body is not JSON.
Outcomes == {"ok", "network", "http_json", "http_text", "malformed"}

\* The outcomes the server or the network reports as a failure.
Failures == Outcomes \ {"ok"}

\* null, and the body of the response to fetch i.
NoData == [kind |-> "null", id |-> 0]
Body(o, i) == [kind |-> IF o = "ok" THEN "snapshot" ELSE "errorBody", id |-> i]

Fetch == 1..Len(fetches)
Pending == { i \in Fetch : fetches[i].state = "pending" }

\* A state update that is applied whoever issued it.
AppliesAlways(f) == TRUE

\* A state update reaches the instance that made it while that instance is
\* mounted; React drops the update of an unmounted instance.
Applies(f) == page = f.page /\ pinst = f.owner

\* A cleanup that leaves the interval running.
CleanupKeepsTimer(ts, i) == ts

\* return () => clearInterval(id)
Cleanup(ts, i) == ts \ {i}

\* A run that starts without touching error.
StartErrorKept(e) == e

\* setError("") at the start of a run.
StartError(e) == ""

\* await res.json() of SnapshotDashboard: there is no res.ok test, so the
\* body of a non-2xx response parses like any other; a body that is not
\* JSON throws, as does a rejected fetch.
SnapshotParses(o) == o \in {"ok", "http_json"}

\* What the try block of runDiagnostics throws, "" when it throws nothing.
RunMessage(o) ==
    CASE o = "ok" -> ""
      [] o = "network" -> "Failed to fetch"
      [] o \in {"http_json", "http_text"} -> "Diagnostics failed (500)."
      [] OTHER -> "Unexpected token"

\* fetchSnapshot up to its first await, called by instance i.
FetchSnapshot(i, by) ==
    /\ Len(fetches) < MaxFetches
    /\ fetches' = Append(fetches, [page |-> "SnapshotDashboard", owner |-> i, by |-> by,
                                   state |-> "pending", outcome |-> "none",
                                   before |-> data])
    /\ loading' = IF page = "SnapshotDashboard" /\ pinst = i THEN TRUE ELSE loading

\* A page is mounted with fresh state; SnapshotDashboard's effect fetches
\* at once and starts the interval.
MountPage(p) ==
    /\ page = "none"
    /\ pinst < MaxPInst
    /\ page' = p
    /\ pinst' = pinst + 1
    /\ data' = NoData
    /\ isRunning' = FALSE
    /\ error' = ""
    /\ result' = NoData
    /\ lastRunAt' = 0
    /\ IF p = "SnapshotDashboard"
       THEN /\ Len(fetches) < MaxFetches
            /\ fetches' = Append(fetches, [page |-> p, owner |-> pinst + 1, by |-> "mount",
                                           state |-> "pending", outcome |-> "none",
                                           before |-> NoData])
            /\ loading' = TRUE
            /\ timers' = timers \cup {pinst + 1}
       ELSE /\ loading' = FALSE
            /\ UNCHANGED <<fetches, timers>>
    /\ UNCHANGED <<session, out, sparkline, display>>

\* The page is unmounted; SnapshotDashboard's cleanup clears its interval.
UnmountPage ==
    /\ page # "none"
    /\ page' = "none"
    /\ timers' = IF page = "SnapshotDashboard" THEN Cleanup(timers, pinst) ELSE timers
    /\ UNCHANGED <<pinst, data, loading, isRunning, error, result, lastRunAt, fetches>>
    /\ UNCHANGED <<session, out, sparkline, display>>

\* The interval of instance i fires.
Tick(i) ==
    /\ i \in timers
    /\ FetchSnapshot(i, "tick")
    /\ UNCHANGED <<page, pinst, data, timers, isRunning, error, result, lastRunAt>>
    /\ UNCHANGED <<session, out, sparkline, display>>

\* Refresh Now is clicked.
ClickRefreshNow ==
    /\ page = "SnapshotDashboard"
    /\ FetchSnapshot(pinst, "click")
    /\ UNCHANGED <<page, pinst, data, timers, isRunning, error, result, lastRunAt>>
    /\ UNCHANGED <<session, out, sparkline, display>>

\* runDiagnostics up to its await, from the button, which is disabled while
\* a run is in progress.
RunDiagnostics ==
    /\ page = "DiagnosticsInfo"
    /\ ~isRunning
    /\ Len(fetches) < MaxFetches
    /\ isRunning' = TRUE
    /\ error' = StartError(error)
    /\ result' = NoData
    /\ fetches' = Append(fetches, [page |-> "DiagnosticsInfo", owner |-> pinst, by |-> "click",
                                   state |-> "pending", outcome |-> "none",
                                   before |-> result])
    /\ UNCHANGED <<page, pinst, data, loading, timers, lastRunAt>>
    /\ UNCHANGED <<session, out, sparkline, display>>

\* The rest of fetchSnapshot, once fetch i has ended with outcome o.
ResolveSnapshot(i, o) ==
    /\ data' = IF SnapshotParses(o) THEN Body(o, i) ELSE data
    /\ loading' = FALSE
    /\ UNCHANGED <<isRunning, error, result, lastRunAt>>

\* The rest of runDiagnostics, once fetch i has ended with outcome o; the
\* moment it ends stands for new Date().
ResolveRun(i, o) ==
    /\ IF RunMessage(o) = ""
       THEN /\ result' = Body(o, i)
            /\ lastRunAt' = i
            /\ error' = error
       ELSE /\ error' = RunMessage(o)
            /\ UNCHANGED <<result, lastRunAt>>
    /\ isRunning' = FALSE
    /\ UNCHANGED <<data, loading>>

\* Fetch i ends with outcome o and the code after the await runs.
Resolve(i, o) ==
    /\ i \in Pending
    /\ fetches' = [fetches EXCEPT ![i].state = "done", ![i].outcome = o]
    /\ IF Applies(fetches[i])
       THEN IF fetches[i].page = "SnapshotDashboard"
            THEN ResolveSnapshot(i, o)
            ELSE ResolveRun(i, o)
       ELSE UNCHANGED <<data, loading, isRunning, error, result, lastRunAt>>
    /\ UNCHANGED <<page, pinst, timers>>
    /\ UNCHANGED <<session, out, sparkline, display>>

\* No polling page has been mounted.
PollerIdle ==
    /\ page = "none"
    /\ pinst = 0
    /\ data = NoData
    /\ loading = FALSE
    /\ timers = {}
    /\ isRunning = FALSE
    /\ error = ""
    /\ result = NoData
    /\ lastRunAt = 0
    /\ fetches = <<>>

(***************************************************************************)
(* What a render derives from history.  A record of history is the parsed  *)
(* JSON value: kind tells null from an object, f gives each field's value. *)
(* Numbers are held in tenths, so that 12.6 is 126.                        *)
(***************************************************************************)
\* i.d as a number of tenths.
Dec(i, d) == 10 * i + d

JsUndefined == [t |-> "undefined", v |-> 0]
JsNull == [t |-> "null", v |-> 0]
JsNaN == [t |-> "NaN", v |-> 0]
JsNum(n) == [t |-> "number", v |-> n]
\* A string that spells the number n, and a string that spells none.
JsStr(n) == [t |-> "string", v |-> n]
JsText == [t |-> "text", v |-> 0]

\* The fields the views read.
Fields == {"coolant_temp", "control_module_voltage", "fuel_level", "fuel_rate"}

\* Number(x).
Number(x) ==
    CASE x.t = "number" -> x
      [] x.t = "string" -> JsNum(x.v)
      [] x.t = "null" -> JsNum(0)
      [] OTHER -> JsNaN

\* x == null: null or undefined.
IsNullish(x) == x.t \in {"null", "undefined"}

\* m?.[key]: undefined when m is null or has no such field.
Get(m, key) == IF m.kind = "null" THEN JsUndefined ELSE m.f[key]

\* A series that converts without looking for null first.
SeriesAtUnchecked(m, key) == Number(Get(m, key))

\* m?.[key] == null ? null : Number(m[key])
SeriesAt(m, key) == IF IsNullish(Get(m, key)) THEN JsNull ELSE Number(Get(m, key))

\* const series = (key) => history.map(...)
Series(h, key) == [i \in 1..Len(h) |-> SeriesAt(h[i], key)]

\* JSON null, as a record of history (and latest when history is empty).
NullRecord == [kind |-> "null", f |-> [k \in Fields |-> JsUndefined]]

\* const latest = history.length ? history[history.length - 1] : null
Latest(h) == IF Len(h) # 0 THEN h[Len(h)] ELSE NullRecord

\* A metric converted without looking for null first.
MetricUnchecked(latest, key) == Number(Get(latest, key))

\* latest?.key == null ? null : Number(latest.key)
Metric(latest, key) ==
    IF IsNullish(Get(latest, key)) THEN JsNull ELSE Number(Get(latest, key))

\* a >= n, a < n, a > n, a <= n on a JavaScript number: false on NaN.
Ge(a, n) == a.t = "number" /\ a.v >= n
Lt(a, n) == a.t = "number" /\ a.v < n
Gt(a, n) == a.t = "number" /\ a.v > n
Le(a, n) == a.t = "number" /\ a.v <= n

\* A coolant rule whose bad tier starts above 110.
CoolantStatusStrict(coolant) ==
    IF IsNullish(coolant) THEN "normal"
    ELSE IF Gt(coolant, Dec(110, 0)) THEN "bad"
    ELSE IF Ge(coolant, Dec(103, 0)) THEN "warn" ELSE "normal"

\* coolant == null ? "normal" : coolant >= 110 ? "bad" : coolant >= 103 ? "warn" : "normal"
CoolantStatus(coolant) ==
    IF IsNullish(coolant) THEN "normal"
    ELSE IF Ge(coolant, Dec(110, 0)) THEN "bad"
    ELSE IF Ge(coolant, Dec(103, 0)) THEN "warn" ELSE "normal"

\* A voltage rule without the high band.
VoltStatusLowOnly(volts) ==
    IF IsNullish(volts) THEN "normal"
    ELSE IF Lt(volts, Dec(12, 0)) THEN "bad"
    ELSE IF Lt(volts, Dec(12, 6)) THEN "warn" ELSE "normal"

\* volts == null ? "normal" : volts < 12.0 ? "bad" : volts < 12.6 ? "warn"
\*   : volts > 15.2 ? "warn" : "normal"
VoltStatus(volts) ==
    IF IsNullish(volts) THEN "normal"
    ELSE IF Lt(volts, Dec(12, 0)) THEN "bad"
    ELSE IF Lt(volts, Dec(12, 6)) THEN "warn"
    ELSE IF Gt(volts, Dec(15, 2)) THEN "warn" ELSE "normal"

\* A fuel rule that warns below 15 only.
FuelStatusStrict(fuel) ==
    IF IsNullish(fuel) THEN "normal" ELSE IF Lt(fuel, Dec(15, 0)) THEN "warn" ELSE "normal"

\* fuel == null ? "normal" : fuel <= 15 ? "warn" : "normal"
FuelStatus(fuel) ==
    IF IsNullish(fuel) THEN "normal" ELSE IF Le(fuel, Dec(15, 0)) THEN "warn" ELSE "normal"

\* Nothing rendered yet.
NotRendered ==
    [rendered |-> FALSE, coolantStatus |-> "normal", voltStatus |-> "normal",
     fuelStatus |-> "normal", series |-> [k \in Fields |-> <<>>]]

\* A render of Dashboard: latest, series and the three statuses.
RenderDashboard ==
    /\ view = "Dashboard"
    /\ LET latest == Latest(history)
       IN  out' = [rendered |-> TRUE,
                   coolantStatus |-> CoolantStatus(Metric(latest, "coolant_temp")),
                   voltStatus |-> VoltStatus(Metric(latest, "control_module_voltage")),
                   fuelStatus |-> FuelStatus(Metric(latest, "fuel_level")),
                   series |-> [k \in Fields |-> Series(history, k)]]
    /\ UNCHANGED <<session, poller, sparkline, display>>

\* A render of Fuel_Air_Metrics_Dashboard: latest and series, no status.
RenderFuelAir ==
    /\ view = "FuelAir"
    /\ out' = [NotRendered EXCEPT !.rendered = TRUE,
                                  !.series = [k \in Fields |-> Series(history, k)]]
    /\ UNCHANGED <<session, poller, sparkline, display>>

(***************************************************************************)
(* Sparkline: the points of the polyline, computed from the props.  A      *)
(* value is null, NaN or a number; numbers and coordinates are in tenths.  *)
(***************************************************************************)
\* v != null && !Number.isNaN(v)
IsValid(v) == v.t \notin {"null", "undefined", "NaN"}

\* values.filter(...)
Clean(vs) == SelectSeq(vs, IsValid)

\* A test that lets a single value through.
TooFewOnlyEmpty(clean) == Len(clean) < 1

\* if (clean.length < 2) return "";
TooFew(clean) == Len(clean) < 2

\* Math.min(...clean), Math.max(...clean)
MathMin(clean) == CHOOSE a \in { clean[i].v : i \in DOMAIN clean } :
                     \A i \in DOMAIN clean : a <= clean[i].v
MathMax(clean) == CHOOSE a \in { clean[i].v : i \in DOMAIN clean } :
                     \A i \in DOMAIN clean : a >= clean[i].v

\* a ?? b
OrElse(a, b) == IF a.t \in {"null", "undefined"} THEN b ELSE a.v

\* hi - lo || 1
Span(hi, lo) == IF hi - lo = 0 THEN Dec(1, 0) ELSE hi - lo

\* const w = 120; const h = 28;
SparkW == Dec(120, 0)
SparkH == Dec(28, 0)

\* (a / b).toFixed(1) as a number of tenths, for a and b where a / b is
\* already in tenths: the nearest integer, a tie going away from zero.  A
\* zero divisor gives no finite number; 0 stands for it here and the
\* divisor is reported with the points.
ToFixed1(a, b) ==
    IF b = 0 THEN 0
    ELSE LET num == IF b < 0 THEN 0 - a ELSE a
             den == IF b < 0 THEN 0 - b ELSE b
         IN  IF num >= 0 THEN (2 * num + den) \div (2 * den)
             ELSE 0 - ((2 * (0 - num) + den) \div (2 * den))

\* The index a value is drawn at when the gaps are closed up: the number of
\* valid values before position k.
XIndexCompacted(vs, k) == Len(Clean(SubSeq(vs, 1, k - 1)))

\* The index i that map hands to its callback for position k of vs, counted
\* from 0.
XIndex(vs, k) == k - 1

\* The callback of values.map: null for a gap, else the coordinate pair.
Coordinate(vs, k, lo, span) ==
    IF ~IsValid(vs[k]) THEN [gap |-> TRUE, x |-> 0, y |-> 0]
    ELSE [gap |-> FALSE,
          x |-> ToFixed1(XIndex(vs, k) * SparkW, Len(vs) - 1),
          y |-> ToFixed1(SparkH * (span - (vs[k].v - lo)), span)]

\* .filter(Boolean)
IsPoint(c) == ~c.gap

\* The memo: the coordinates in order, and the divisors the computation
\* divided by.
Sparkline(vs, mn, mx) ==
    LET clean == Clean(vs)
    IN  IF TooFew(clean) THEN [coords |-> <<>>, divisors |-> {}]
        ELSE LET lo == OrElse(mn, MathMin(clean))
                 hi == OrElse(mx, MathMax(clean))
                 span == Span(hi, lo)
             IN  [coords |-> SelectSeq([k \in 1..Len(vs) |-> Coordinate(vs, k, lo, span)],
                                       IsPoint),
                  divisors |-> {Len(vs) - 1} \cup (IF Len(clean) > 0 THEN {span} ELSE {})]

\* No Sparkline has computed anything.
NotComputed == [computed |-> FALSE, coords |-> <<>>, divisors |-> {}]

SparklineIdle ==
    /\ values = <<>>
    /\ min = JsUndefined
    /\ max = JsUndefined
    /\ points = NotComputed

\* useMemo runs for the props.
ComputePoints ==
    /\ LET r == Sparkline(values, min, max)
       IN  points' = [computed |-> TRUE, coords |-> r.coords, divisors |-> r.divisors]
    /\ UNCHANGED <<values, min, max>>
    /\ UNCHANGED <<session, poller, out, display>>

MaxSpark == 8

\* What a series holds: null, NaN and two numbers.
SparkValues == {JsNull, JsNaN, JsNum(Dec(1, 0)), JsNum(Dec(2, 5))}

\* The min and max props: none (Navbar.jsx) or a fixed range (Dashboard.jsx).
SparkRanges == {<<JsUndefined, JsUndefined>>, <<JsNum(0), JsNum(Dec(7, 0))>>}

(***************************************************************************)
(* The trouble codes of a snapshot, as SnapshotDashboard lists them.  A    *)
(* value is undefined, null, a string or a number given by its spelling;   *)
(* an entry is such a value or an object with code, status, description.   *)
(***************************************************************************)
DUndefined == [t |-> "undefined", s |-> ""]
DNull == [t |-> "null", s |-> ""]
DString(x) == [t |-> "string", s |-> x]
DNumber(x) == [t |-> "number", s |-> x]

\* An entry that is not an object, and an object with the three fields.
Bare(x) == [t |-> x.t, s |-> x.s, code |-> DUndefined, status |-> DUndefined,
            description |-> DUndefined]
Structured(c, st, d) == [t |-> "object", s |-> "", code |-> c, status |-> st,
                         description |-> d]

\* A test that takes every entry for an object.
IsObjAlways(dtc) == TRUE

\* dtc && typeof dtc === "object"
IsObj(dtc) == dtc.t = "object"

\* String(dtc) of an entry that is not an object.
StringOf(dtc) ==
    CASE dtc.t = "null" -> "null"
      [] dtc.t = "undefined" -> "undefined"
      [] OTHER -> dtc.s

\* The code, status and description of one entry.
ResolveDtc(dtc) ==
    [code |-> IF IsObj(dtc) THEN dtc.code ELSE DString(StringOf(dtc)),
     status |-> IF IsObj(dtc) THEN dtc.status ELSE DNull,
     description |-> IF IsObj(dtc) THEN dtc.description ELSE DNull]

\* Array.isArray(dtcs) && dtcs.length > 0 ? dtcs.map(...) : no list
DtcList(d) ==
    IF d.isArray /\ Len(d.items) > 0
    THEN [i \in 1..Len(d.items) |-> ResolveDtc(d.items[i])]
    ELSE <<>>

\* No snapshot has been listed.
NotListed == [listed |-> FALSE, items |-> <<>>]

DisplayIdle ==
    /\ dtcs = [isArray |-> FALSE, items |-> <<>>]
    /\ shown = NotListed

\* SnapshotDashboard renders the trouble codes of its snapshot.
ListDtcs ==
    /\ shown' = [listed |-> TRUE, items |-> DtcList(dtcs)]
    /\ UNCHANGED dtcs
    /\ UNCHANGED <<session, poller, out, sparkline>>

MaxDtcs == 2

\* The entries: strings (one empty), null, a number, and objects whose
\* fields are present or not.
DtcEntries ==
    { Bare(x) : x \in {DString("P0300"), DString(""), DNull, DNumber("0")} }
    \cup { Structured(c, st, d) :
             c \in {DUndefined, DNull, DString("P0301")},
             st \in {DUndefined, DNull, DString("confirmed")},
             d \in {DUndefined, DString("Cylinder 1 misfire")} }

\* diagnostics.dtcs: missing, or an array of at most MaxDtcs entries.
DtcInputs ==
    {[isArray |-> FALSE, items |-> <<>>]}
    \cup { [isArray |-> TRUE, items |-> q] :
             q \in UNION { [1..n -> DtcEntries] : n \in 0..MaxDtcs } }

(***************************************************************************)
(* The histories the renders are checked on.                               *)
(***************************************************************************)
MaxHist == 2
Spread == 2

\* The numbers within Spread tenths of n.
Near(n) == (n - Spread)..(n + Spread)

\* The values a field takes: absent, null, zero, strings, the thresholds'
\* neighbourhoods and the values the specification names.
FieldValues(k) ==
    {JsUndefined, JsNull, JsNum(0), JsText}
    \cup CASE k = "coolant_temp" ->
                { JsNum(n) : n \in Near(Dec(103, 0)) \cup Near(Dec(110, 0))
                                   \cup {Dec(102, 9), Dec(109, 9)} }
           [] k = "control_module_voltage" ->
                { JsNum(n) : n \in Near(Dec(12, 0)) \cup Near(Dec(12, 6)) \cup Near(Dec(15, 2))
                                   \cup {Dec(11, 9), Dec(12, 3), Dec(15, 3)} }
                \cup {JsStr(Dec(12, 3))}
           [] k = "fuel_level" ->
                { JsNum(n) : n \in Near(Dec(15, 0)) \cup {Dec(15, 1)} }
           [] OTHER -> {JsNum(Dec(7, 5))}

\* An object with field k set to x and no other field.
OneField(k, x) == [kind |-> "object", f |-> [j \in Fields |-> IF j = k THEN x ELSE JsUndefined]]

\* The records: JSON null and the objects with one field.
Records == {NullRecord} \cup UNION { { OneField(k, x) : x \in FieldValues(k) } : k \in Fields }

\* The histories of at most MaxHist records.
Histories == UNION { [1..n -> Records] : n \in 0..MaxHist }

\* A view that has received the records of h through its open socket.
InitRender ==
    /\ view \in {"Dashboard", "FuelAir"}
    /\ inst = 1
    /\ wsRef = 1
    /\ diagnosticsRunning = (view = "Dashboard")
    /\ history \in Histories
    /\ messages = <<>>
    /\ sockets = <<[state |-> "OPEN", owner |-> 1, stopped |-> FALSE]>>
    /\ sent = Len(history)
    /\ arrived = history
    /\ last = [op |-> "message", prev |-> "message", sock |-> 1, threw |-> FALSE,
               ref |-> 1, raw |-> NoRaw]
    /\ out = NotRendered
    /\ PollerIdle
    /\ SparklineIdle
    /\ DisplayIdle

NextRender == RenderDashboard \/ RenderFuelAir

SpecRender == InitRender /\ [][NextRender]_vars

(***************************************************************************)
(* Specifications.                                                         *)
(***************************************************************************)
Init ==
    /\ view = "none"
    /\ inst = 0
    /\ wsRef = 0
    /\ diagnosticsRunning = FALSE
    /\ messages = <<>>
    /\ history = <<>>
    /\ sockets = <<>>
    /\ sent = 0
    /\ arrived = <<>>
    /\ last = [op |-> "init", prev |-> "init", sock |-> 0, threw |-> FALSE, ref |-> 0,
               raw |-> NoRaw]
    /\ out = NotRendered
    /\ PollerIdle
    /\ SparklineIdle
    /\ DisplayIdle

\* The session's operations and the transport's events in every order.
Next ==
    \/ \E v \in Views : Mount(v)
    \/ Unmount
    \/ StartDiagnostics
    \/ StopDiagnostics
    \/ \E s \in Sock : WsOpen(s)
    \/ \E s \in Sock : \E raw \in RawMessages(sent + 1) : sent < MaxMsgs /\ WsMessage(s, raw)
    \/ \E s \in Sock : WsError(s)
    \/ \E s \in Sock : WsClose(s)

Spec == Init /\ [][Next]_vars

\* The same program driven through the rendered Run/Stop button only.
NextUI ==
    \/ \E v \in Views : Mount(v)
    \/ Unmount
    \/ ClickRunDiagnostics
    \/ ClickStopDiagnostics
    \/ \E s \in Sock : WsOpen(s)
    \/ \E s \in Sock : \E raw \in RawMessages(sent + 1) : sent < MaxMsgs /\ WsMessage(s, raw)
    \/ \E s \in Sock : WsError(s)
    \/ \E s \in Sock : WsClose(s)

SpecUI == Init /\ [][NextUI]_vars

\* One instance of a view fed by a bridge that sends tagged fuel_air
\* payloads only, long enough to fill both windows.
NextLong ==
    \/ \E v \in Views : inst = 0 /\ Mount(v)
    \/ StartDiagnostics
    \/ StopDiagnostics
    \/ \E s \in Sock : WsOpen(s)
    \/ \E s \in Sock : \E raw \in RawFuelAir(sent + 1) : sent < MaxLong /\ WsMessage(s, raw)
    \/ \E s \in Sock : WsClose(s)

SpecLong == Init /\ [][NextLong]_vars

NextPoll ==
    \/ \E p \in Pages : MountPage(p)
    \/ UnmountPage
    \/ \E i \in 1..MaxPInst : Tick(i)
    \/ ClickRefreshNow
    \/ RunDiagnostics
    \/ \E i \in Fetch : \E o \in Outcomes : Resolve(i, o)

SpecPoll == Init /\ [][NextPoll]_vars

\* A Sparkline given a series of at most MaxSpark values.
InitSpark ==
    /\ view = "none"
    /\ inst = 0
    /\ wsRef = 0
    /\ diagnosticsRunning = FALSE
    /\ messages = <<>>
    /\ history = <<>>
    /\ sockets = <<>>
    /\ sent = 0
    /\ arrived = <<>>
    /\ last = [op |-> "init", prev |-> "init", sock |-> 0, threw |-> FALSE, ref |-> 0,
               raw |-> NoRaw]
    /\ out = NotRendered
    /\ PollerIdle
    /\ values \in UNION { [1..n -> SparkValues] : n \in 0..MaxSpark }
    /\ \E r \in SparkRanges : min = r[1] /\ max = r[2]
    /\ points = NotComputed
    /\ DisplayIdle

NextSpark == ComputePoints

SpecSpark == InitSpark /\ [][NextSpark]_vars

\* SnapshotDashboard holding a snapshot with some trouble codes.
InitDtc ==
    /\ view = "none"
    /\ inst = 0
    /\ wsRef = 0
    /\ diagnosticsRunning = FALSE
    /\ messages = <<>>
    /\ history = <<>>
    /\ sockets = <<>>
    /\ sent = 0
    /\ arrived = <<>>
    /\ last = [op |-> "init", prev |-> "init", sock |-> 0, threw |-> FALSE, ref |-> 0,
               raw |-> NoRaw]
    /\ out = NotRendered
    /\ PollerIdle
    /\ SparklineIdle
    /\ dtcs \in DtcInputs
    /\ shown = NotListed

NextDtc == ListDtcs

SpecDtc == InitDtc /\ [][NextDtc]_vars

(***************************************************************************)
(* Properties.                                                             *)
(***************************************************************************)
\* The sockets instance i created whose close event is still to come.
LiveOf(i) == { s \in Sock : IsLive(s) /\ sockets[s].owner = i }

\* C1: a component instance never has two WebSockets that are both live
\* (created, close event not yet delivered).
C1_AtMostOneLiveTransport == \A i \in 1..inst : Cardinality(LiveOf(i)) <= 1

\* C2: a startDiagnostics() that directly follows a startDiagnostics() finds
\* wsRef.current set, creates no WebSocket and changes no state.
C2_SecondStartIsNoOp ==
    [][(last.op = "start" /\ last'.op = "start")
        => /\ wsRef # 0
           /\ Len(sockets') = Len(sockets)
           /\ UNCHANGED <<view, inst, wsRef, diagnosticsRunning, messages,
                          history, sockets>>]_vars

\* C2 witness: two starts in a row have run and one socket exists.
C2_Witness ==
    /\ last.op = "start" /\ last.prev = "start" /\ last.ref # 0
    /\ Len(sockets) = 1 /\ wsRef = 1

\* C3: stopDiagnostics() and the close handler of a socket of the mounted
\* instance leave wsRef.current null, it stays null until the next
\* startDiagnostics(), and that call creates a socket that did not exist
\* before and stores it in wsRef.current.
C3_ClosedThenFreshStart ==
    [][/\ last'.op = "stop" => wsRef' = 0
       /\ (last'.op = "close" /\ Alive(last'.sock)) => wsRef' = 0
       /\ (wsRef = 0 /\ last'.op \notin {"start", "mount"}) => wsRef' = 0
       /\ (wsRef = 0 /\ last'.op = "start")
            => /\ wsRef' \notin DOMAIN sockets
               /\ wsRef' \in DOMAIN sockets'
               /\ sockets'[wsRef'] = NewSocket(inst)
               /\ \A s \in DOMAIN sockets : sockets'[s] = sockets[s]]_vars

\* C3 witness: after a stop, a start has stored a second socket in wsRef.
C3_Witness ==
    /\ last.op = "start" /\ last.prev \in {"stop", "close"} /\ last.ref = 0
    /\ wsRef = 2 /\ sockets[2].state = "CONNECTING" /\ sockets[1].stopped

\* C4: a handler of a socket that stopDiagnostics() has closed, or whose
\* view has been torn down, changes nothing: its message event leaves
\* history and messages alone, its close event leaves the wsRef.current and
\* the running flag of a session started afterwards alone.
C4_StoppedSocketMutatesNothing ==
    [][\A s \in DOMAIN sockets :
         (last'.sock = s /\ (sockets[s].stopped \/ ~Alive(s)))
           => /\ last'.op = "message" => UNCHANGED <<history, messages>>
              /\ (last'.op = "close" /\ wsRef \notin {0, s})
                   => UNCHANGED <<wsRef, diagnosticsRunning>>]_vars

\* C5: a socket whose view has been torn down is not connecting or open (the
\* teardown closed it), so connecting or open sockets never pile up.
C5_NoTransportOutlivesItsView ==
    /\ \A s \in Sock : ~Alive(s) => sockets[s].state \notin {"CONNECTING", "OPEN"}
    /\ Cardinality({ s \in Sock : sockets[s].state \in {"CONNECTING", "OPEN"} }) <= 1

\* C6 as claimed: once the error handler of a socket of the mounted instance
\* has run, wsRef.current is null and the running flag is false.
C6_ErrorClosesSession ==
    [][(last'.op = "error" /\ Alive(last'.sock))
        => (wsRef' = 0 /\ ~diagnosticsRunning')]_vars

\* C6 amended: the error handler changes no state of the session; the close
\* event that follows the error does: once that close handler has run,
\* wsRef.current is null and the running flag is false, so that
\* startDiagnostics() does not return early.
C6_CloseAfterErrorClosesSession ==
    [][/\ last'.op = "error"
            => UNCHANGED <<wsRef, diagnosticsRunning, messages, history>>
       /\ (last.op = "error" /\ last'.op = "close" /\ Alive(last'.sock))
            => /\ last'.sock = last.sock
               /\ wsRef' = 0
               /\ ~diagnosticsRunning'
               /\ ~StartReturnsEarly(wsRef')]_vars

\* C6 witness: the close that follows an error has closed a running session.
C6_Witness ==
    /\ last.op = "close" /\ last.prev = "error" /\ last.ref # 0
    /\ view \in ButtonViews /\ Alive(last.sock)
    /\ wsRef = 0 /\ ~diagnosticsRunning

\* The messages the claim calls malformed: e.data is not JSON, or its type
\* tag is one no component names.
Malformed(raw) == ~raw.json \/ raw.type = "bogus"

\* C7: the handler of a mounted view drops a malformed message silently: it
\* does not throw and leaves history and messages as they were.
C7_MalformedDroppedSilently ==
    [][(last'.op = "message" /\ Alive(last'.sock) /\ Malformed(last'.raw))
        => (~last'.threw /\ UNCHANGED <<history, messages>>)]_vars

\* C8: history holds the min(n, 120) most recent of the n payloads appended,
\* oldest first, and is never longer than 120.
C8_HistoryIsLastArrived ==
    /\ Len(history) <= HistoryCap
    /\ view \in {"Dashboard", "FuelAir"} =>
         /\ Len(history) = Min(Len(arrived), HistoryCap)
         /\ \A i \in 1..Len(history) :
              history[i] = arrived[Len(arrived) - Len(history) + i]

\* C8 witness: more than 120 payloads have been appended and the oldest has
\* been evicted.
C8_Witness ==
    /\ view \in {"Dashboard", "FuelAir"}
    /\ Len(arrived) > HistoryCap
    /\ Len(history) = HistoryCap
    /\ history[1] = arrived[Len(arrived) - HistoryCap + 1]
    /\ history[1] # arrived[1]

\* C9: messages holds the min(n, 20) most recent of the n payloads received,
\* most recent first.
C9_FeedIsLastArrivedReversed ==
    view \in ButtonViews =>
        /\ Len(messages) = Min(Len(arrived), FeedCap)
        /\ \A i \in 1..Len(messages) : messages[i] = arrived[Len(arrived) - i + 1]

\* C9 witness: more than 20 payloads have been received, the last is first.
C9_Witness ==
    /\ view \in ButtonViews
    /\ Len(arrived) > FeedCap
    /\ Len(messages) = FeedCap
    /\ messages[1] = arrived[Len(arrived)]
    /\ messages[FeedCap].ts < messages[1].ts

\* C10: between events Dashboard's two windows agree: messages is empty
\* exactly when history is, and otherwise messages[0] is history's last.
C10_WindowsAgree ==
    view = "Dashboard" =>
        /\ (messages = <<>>) <=> (history = <<>>)
        /\ messages # <<>> => messages[1] = history[Len(history)]

\* C10 witness: Dashboard's handler has appended a JSON null and an object.
C10_Witness ==
    /\ view = "Dashboard" /\ last.op = "message"
    /\ Len(messages) >= 2 /\ Len(history) >= 2
    /\ \E i \in 1..Len(messages) : messages[i].kind = "null"
    /\ messages[1].kind = "object"


(***************************************************************************)
(* Derived values of a render.                                             *)
(***************************************************************************)
\* Record m has no value for key: m is null, or the field is absent or null.
Lacks(m, key) == m.kind = "null" \/ m.f[key].t \in {"undefined", "null"}

\* The field of the latest record is a number.
LatestIsNumber(key) ==
    /\ Len(history) > 0
    /\ history[Len(history)].kind = "object"
    /\ history[Len(history)].f[key].t = "number"

\* The value of that number, in tenths.
LatestValue(key) == history[Len(history)].f[key].v

\* C11: in every render, for every field, the series is as long as history;
\* position i is null exactly when record i lacks the field, and then it is
\* not 0; otherwise it is the numeric value of the field of record i.
C11_SeriesAlignsWithHistory ==
    out.rendered =>
        \A k \in Fields :
            /\ Len(out.series[k]) = Len(history)
            /\ \A i \in 1..Len(history) :
                LET m == history[i]
                    s == out.series[k][i]
                IN  /\ (s = JsNull) <=> Lacks(m, k)
                    /\ Lacks(m, k) => s # JsNum(0)
                    /\ ~Lacks(m, k) =>
                          CASE m.f[k].t = "number" -> s = m.f[k]
                            [] m.f[k].t = "string" -> s = JsNum(m.f[k].v)
                            [] OTHER -> s = JsNaN

\* A rendered history in which one record has the field at 0 and the next
\* lacks it: the series holds a 0 and then a null.
C11_Witness ==
    /\ out.rendered
    /\ Len(history) = 2
    /\ \E k \in Fields :
        /\ history[1].kind = "object" /\ history[1].f[k] = JsNum(0)
        /\ Lacks(history[2], k)
        /\ out.series[k] = <<JsNum(0), JsNull>>

\* C18: for every numeric control-module voltage v of the latest record the
\* status is bad if v < 12.0, warn if 12.0 <= v < 12.6 or v > 15.2, and
\* normal if 12.6 <= v <= 15.2.
C18_VoltageTwoSided ==
    (out.rendered /\ view = "Dashboard" /\ LatestIsNumber("control_module_voltage")) =>
        LET v == LatestValue("control_module_voltage")
        IN  /\ v < Dec(12, 0) => out.voltStatus = "bad"
            /\ (Dec(12, 0) <= v /\ v < Dec(12, 6)) => out.voltStatus = "warn"
            /\ v > Dec(15, 2) => out.voltStatus = "warn"
            /\ (Dec(12, 6) <= v /\ v <= Dec(15, 2)) => out.voltStatus = "normal"

\* A render whose latest voltage is 15.3, classified warn.
C18_Witness ==
    /\ out.rendered /\ view = "Dashboard"
    /\ LatestIsNumber("control_module_voltage")
    /\ LatestValue("control_module_voltage") = Dec(15, 3)
    /\ out.voltStatus = "warn"

\* C19: for every numeric coolant temperature t of the latest record the
\* status is bad if t >= 110, warn if 103 <= t < 110, and normal if t < 103.
C19_CoolantTiers ==
    (out.rendered /\ view = "Dashboard" /\ LatestIsNumber("coolant_temp")) =>
        LET t == LatestValue("coolant_temp")
        IN  /\ t >= Dec(110, 0) => out.coolantStatus = "bad"
            /\ (Dec(103, 0) <= t /\ t < Dec(110, 0)) => out.coolantStatus = "warn"
            /\ t < Dec(103, 0) => out.coolantStatus = "normal"

\* A render whose latest coolant temperature is 110.0, classified bad.
C19_Witness ==
    /\ out.rendered /\ view = "Dashboard"
    /\ LatestIsNumber("coolant_temp")
    /\ LatestValue("coolant_temp") = Dec(110, 0)
    /\ out.coolantStatus = "bad"

\* C20: the fuel status is never bad, and for every numeric fuel level f of
\* the latest record it is warn if f <= 15 and normal if f > 15.
C20_FuelHasNoBadTier ==
    /\ out.fuelStatus # "bad"
    /\ (out.rendered /\ view = "Dashboard" /\ LatestIsNumber("fuel_level")) =>
          LET f == LatestValue("fuel_level")
          IN  /\ f <= Dec(15, 0) => out.fuelStatus = "warn"
              /\ f > Dec(15, 0) => out.fuelStatus = "normal"

\* A render whose latest fuel level is 15, classified warn.
C20_Witness ==
    /\ out.rendered /\ view = "Dashboard"
    /\ LatestIsNumber("fuel_level")
    /\ LatestValue("fuel_level") = Dec(15, 0)
    /\ out.fuelStatus = "warn"


(***************************************************************************)
(* The polling pages.                                                      *)
(***************************************************************************)
\* The fetches of the mounted SnapshotDashboard that have not ended.
Outstanding ==
    { i \in Pending : fetches[i].page = "SnapshotDashboard" /\ Applies(fetches[i]) }

\* Fetch i has ended in a failure.
Failed(i) == fetches[i].state = "done" /\ fetches[i].outcome \in Failures

\* The step ends fetch i, issued by the mounted instance of page p.
Ends(i, p) ==
    /\ i \in Pending
    /\ fetches'[i].state = "done"
    /\ fetches[i].page = p
    /\ Applies(fetches[i])

\* C12: the mounted SnapshotDashboard never has two snapshot fetches
\* outstanding, and a timer tick or a click on Refresh Now while one is in
\* flight issues no fetch.
C12_AtMostOneOutstandingFetch == Cardinality(Outstanding) <= 1

\* C13: a fetch that ends in a network error, a non-success response or a
\* malformed body leaves the stored snapshot as it was: data of
\* SnapshotDashboard keeps its value in the step that ends the fetch, and
\* result of DiagnosticsInfo has the value it had before the run started.
C13_FailedFetchKeepsSnapshot ==
    [][\A i \in Fetch :
         /\ (Ends(i, "SnapshotDashboard") /\ fetches'[i].outcome \in Failures)
               => data' = data
         /\ (Ends(i, "DiagnosticsInfo") /\ fetches'[i].outcome \in Failures)
               => result' = fetches[i].before]_vars

\* What the mounted page keeps as the cause of the last failure;
\* SnapshotDashboard keeps none.
ErrorField == IF page = "DiagnosticsInfo" THEN error ELSE ""

\* C14: the step that ends a fetch in a failure leaves a non-empty cause in
\* the error field of the page, next to the snapshot stored before the fetch.
C14_FailedFetchSetsError ==
    [][\A i \in Fetch :
         \A p \in Pages :
            (Ends(i, p) /\ fetches'[i].outcome \in Failures)
               => /\ ErrorField' # ""
                  /\ p = "DiagnosticsInfo" => result' = fetches[i].before]_vars

\* The step ends fetch i of the mounted DiagnosticsInfo with a parsed body.
RunSucceeds(i) == Ends(i, "DiagnosticsInfo") /\ fetches'[i].outcome = "ok"

\* An earlier run of the same instance ended in a failure.
FailedBefore(i) == \E j \in 1..(i - 1) : fetches[j].owner = fetches[i].owner /\ Failed(j)

C17_TimerFetchesWhileMounted ==
    [][/\ timers' = IF page' = "SnapshotDashboard" THEN {pinst'} ELSE {}
       /\ (page = "none" /\ page' = "SnapshotDashboard") =>
             /\ Len(fetches') = Len(fetches) + 1
             /\ fetches'[Len(fetches')].by = "mount"
             /\ fetches'[Len(fetches')].owner = pinst'
       /\ \A i \in 1..Len(fetches') :
             (i > Len(fetches) /\ fetches'[i].by = "tick") =>
                /\ page = "SnapshotDashboard"
                /\ fetches'[i].owner = pinst
                /\ Len(fetches') = Len(fetches) + 1
                /\ \E j \in Fetch : fetches[j].by = "mount" /\ fetches[j].owner = pinst]_vars

\* An instance has fetched at mount and then on a tick, and is torn down:
\* no interval is left although another fetch could still be issued.
C17_Witness ==
    /\ page = "none"
    /\ timers = {}
    /\ Len(fetches) < MaxFetches
    /\ \E i, j \in Fetch :
        /\ i < j
        /\ fetches[i].by = "mount" /\ fetches[j].by = "tick"
        /\ fetches[i].owner = fetches[j].owner


(***************************************************************************)
(* The classifier on missing data.                                         *)
(***************************************************************************)
\* The latest record gives no number for key: there is no latest record,
\* it is null, or its field is absent, null or converts to NaN.
NoReading(key) ==
    \/ Len(history) = 0
    \/ Lacks(history[Len(history)], key)
    \/ Number(history[Len(history)].f[key]) = JsNaN

\* C21: in every render of Dashboard each of coolantStatus, voltStatus and
\* fuelStatus is one of normal, warn, bad, and is normal when the latest
\* record gives no number for its metric.
C21_NoReadingIsNormal ==
    (out.rendered /\ view = "Dashboard") =>
        /\ {out.coolantStatus, out.voltStatus, out.fuelStatus} \subseteq {"normal", "warn", "bad"}
        /\ NoReading("coolant_temp") => out.coolantStatus = "normal"
        /\ NoReading("control_module_voltage") => out.voltStatus = "normal"
        /\ NoReading("fuel_level") => out.fuelStatus = "normal"

\* A render of Dashboard whose latest record has control_module_voltage
\* null, classified normal.
C21_Witness ==
    /\ out.rendered /\ view = "Dashboard"
    /\ Len(history) > 0
    /\ history[Len(history)].kind = "object"
    /\ history[Len(history)].f["control_module_voltage"] = JsNull
    /\ out.voltStatus = "normal"


(***************************************************************************)
(* The Sparkline normalizer.                                               *)
(***************************************************************************)
\* Position k of values holds a number: neither null nor NaN.
NumberAt(k) == values[k].t = "number"

\* The positions of values that hold a number, in order.
NumberPositions == SelectSeq([k \in 1..Len(values) |-> k], NumberAt)

\* n is the tenths nearest to a / b.
Nearest(n, a, b) == 2 * (n * b - a) <= b /\ 2 * (a - n * b) <= b

\* C22: when values holds fewer than 2 numbers (it may be empty or of length
\* 1), the normalizer returns no coordinate and divides by nothing; and it
\* never divides by zero.
C22_TooFewValuesGiveNothing ==
    points.computed =>
        /\ Len(NumberPositions) < 2 => (points.coords = <<>> /\ points.divisors = {})
        /\ 0 \notin points.divisors

\* A series of length 1 holding a number: nothing is drawn.
C22_Witness ==
    /\ points.computed
    /\ Len(values) = 1 /\ NumberAt(1)
    /\ points.coords = <<>>
    /\ points.divisors = {}

\* C23: when values (of length N) holds at least 2 numbers, the normalizer
\* returns one coordinate per position that holds a number, in order, and
\* the j-th coordinate has x = i * W / (N - 1), to one decimal, where i is
\* the index, counted from 0, of the j-th such position in values.
C23_PositionsKeepTheirIndex ==
    (points.computed /\ Len(NumberPositions) >= 2) =>
        /\ Len(points.coords) = Len(NumberPositions)
        /\ \A j \in 1..Len(NumberPositions) :
              Nearest(points.coords[j].x, (NumberPositions[j] - 1) * SparkW, Len(values) - 1)

\* A series with a null between two numbers, of a length for which the
\* step is not a whole number of tenths: the coordinates after the null are
\* two steps from the one before it.
C23_Witness ==
    /\ points.computed
    /\ Len(values) >= 3
    /\ SparkW % (Len(values) - 1) # 0
    /\ NumberAt(1) /\ ~NumberAt(2) /\ NumberAt(3)
    /\ Len(points.coords) >= 2
    /\ points.coords[1].x = 0
    /\ Nearest(points.coords[2].x, 2 * SparkW, Len(values) - 1)


(***************************************************************************)
(* The list of trouble codes.                                              *)
(***************************************************************************)
\* C24: the list has one item per entry of dtcs, each with a code, a status
\* and a description: a string s gives code s, status null and description
\* null; an object gives its own code, status and description.
C24_DtcsResolveToOneShape ==
    (shown.listed /\ dtcs.isArray) =>
        /\ Len(shown.items) = Len(dtcs.items)
        /\ \A i \in 1..Len(dtcs.items) :
              LET dtc == dtcs.items[i]
                  r == shown.items[i]
              IN  /\ dtc.t = "string" =>
                        /\ r.code = DString(dtc.s)
                        /\ r.status = DNull
                        /\ r.description = DNull
                  /\ dtc.t = "object" =>
                        /\ r.code = dtc.code
                        /\ r.status = dtc.status
                        /\ r.description = dtc.description

\* A listed snapshot whose dtcs hold a bare string and a record with all
\* three fields.
C24_Witness ==
    /\ shown.listed /\ dtcs.isArray
    /\ Len(shown.items) = 2
    /\ dtcs.items[1] = Bare(DString("P0300"))
    /\ shown.items[1] = [code |-> DString("P0300"), status |-> DNull, description |-> DNull]
    /\ dtcs.items[2] = Structured(DString("P0301"), DString("confirmed"),
                                  DString("Cylinder 1 misfire"))
    /\ shown.items[2] = [code |-> DString("P0301"), status |-> DString("confirmed"),
                         description |-> DString("Cylinder 1 misfire")]


(***************************************************************************)
(* The status flag and the transport, through the rendered button.         *)
(***************************************************************************)
\* The sockets of the mounted instance that deliver messages or may come to.
Delivering ==
    { s \in Sock : sockets[s].owner = inst /\ sockets[s].state \in {"CONNECTING", "OPEN"} }

\* C25: while Dashboard or DiagnosticsPage shows Run Diagnostics
\* (diagnosticsRunning is false), no WebSocket that the mounted instance
\* created is connecting or open, and wsRef.current is null.
C25_IdleMeansNoLiveSocket ==
    (view \in ButtonViews /\ ~diagnosticsRunning) => (Delivering = {} /\ wsRef = 0)

\* A session has run and has been closed: payloads were received, the
\* socket is closed and the view shows Run Diagnostics again.
C25_Witness ==
    /\ view \in ButtonViews /\ ~diagnosticsRunning
    /\ messages # <<>>
    /\ \E s \in Sock : sockets[s].owner = inst /\ sockets[s].state = "CLOSED"
    /\ Delivering = {}


(***************************************************************************)
(* Overlapping fetches of SnapshotDashboard.                               *)
(***************************************************************************)
\* C26: the response to a fetch never replaces, in data, the response to a
\* fetch that was issued after it.
C26_LaterIssuedResponseStays ==
    [][\A i \in Fetch :
         (Ends(i, "SnapshotDashboard") /\ data.kind # "null" /\ data.id > i)
            => data' = data]_vars

\* C27: while SnapshotDashboard is mounted, loading is true exactly when one
\* of its fetches is in flight.
C27_LoadingIffFetchInFlight ==
    page = "SnapshotDashboard" => (loading <=> Outstanding # {})


(***************************************************************************)
(* The windows across sessions.                                            *)
(***************************************************************************)
\* C28: stopDiagnostics(), a close event and startDiagnostics() leave
\* history and messages as they are; a payload that is appended afterwards
\* goes behind the records history holds and in front of those messages
\* holds, the oldest leaving when the window is at its cap of 120 or 20.
C28_SessionsShareTheWindows ==
    [][/\ last'.op \in {"stop", "close", "start"} => UNCHANGED <<history, messages>>
       /\ (last'.op = "message" /\ arrived' # arrived) =>
             LET x == arrived'[Len(arrived')]
                 n == Len(history')
                 m == Len(messages')
             IN  /\ view \in {"Dashboard", "FuelAir"} =>
                       /\ n = Min(Len(history) + 1, HistoryCap)
                       /\ history'[n] = x
                       /\ \A k \in 1..(n - 1) : history'[k] = history[Len(history) - (n - 1) + k]
                 /\ view \in ButtonViews =>
                       /\ m = Min(Len(messages) + 1, FeedCap)
                       /\ messages'[1] = x
                       /\ \A k \in 2..m : messages'[k] = messages[k - 1]]_vars

\* A first session filled both windows and was stopped and closed; a second
\* startDiagnostics() has just opened a new socket and the windows are still
\* full.
C28_Witness ==
    /\ view = "Dashboard"
    /\ last.op = "start"
    /\ Len(sockets) = 2 /\ wsRef = 2
    /\ sockets[1].state = "CLOSED" /\ sockets[1].stopped
    /\ Len(history) = HistoryCap
    /\ Len(messages) = FeedCap

====
